---- MODULE Spec2Model ----
(***************************************************************************)
(* SFSOAP2REST, main.py: SOAP login against Salesforce, extraction of the  *)
(* session id and server URL from the response, and a REST probe with the  *)
(* session id as bearer token.                                             *)
(*                                                                         *)
(* Python strings are TLA+ strings (Len, SubSeq and \o work on them        *)
(* character by character).  A Python value that may be None is a record:  *)
(* PyNone, or Str(s).  An XML text is a sequence of lexical tokens (start  *)
(* tag, end tag, character data); fromstring parses it with a stack, the   *)
(* way expat does, into the elements in document order.                    *)
(***************************************************************************)
EXTENDS Integers, Sequences, FiniteSets, TLC

VARIABLES
  entry,        \* the function the run starts in: main, login, parse or probe
  pc,           \* where the run is
  args,         \* the arguments of the call in progress
  net,          \* the HTTP requests issued so far, in order
  inflight,     \* the number of requests issued and not yet answered
  replies,      \* what the transport answered so far: status or exception
  ret,          \* what get_salesforce_session_id / parse_login_response returned
  escaped,      \* the exception that escaped to the caller of entry, or "none"
  parse_calls,  \* the number of calls of parse_login_response
  session_id,   \* main's session_id
  server_url,   \* main's server_url
  stdout        \* what was printed, one label a line

vars == <<entry, pc, args, net, inflight, replies, ret, escaped, parse_calls,
          session_id, server_url, stdout>>

\* ------------------------------------------------------------ bounds

\* Elements in a generated XML document handed to parse_login_response.
MaxNodes == 4
\* Elements in an XML document the login endpoint answers with.
MaxRespNodes == 3
\* Pieces a generated serverUrl argument is concatenated from.
MaxChunks == 3

\* ------------------------------------------------------ Python values

PyNone == [t |-> "None"]

Str(s) == [t |-> "str", v |-> s]

IsStr(x) == x.t = "str"

\* `is not None` in the place of the truth value: "" passes.
NotNone(x) == x.t # "None"

\* Python truth value of None or a str: None and "" are false.
Truthy(x) == IsStr(x) /\ Len(x.v) > 0

\* ------------------------------------------------------------- XML

SoapNS == "http://schemas.xmlsoap.org/soap/envelope/"

PartnerNS == "urn:partner.soap.sforce.com"

OtherNS == "urn:enterprise.soap.sforce.com"

namespaces == [soapenv |-> SoapNS, ns |-> PartnerNS]

Open(n, name) == [k |-> "open", ns |-> n, name |-> name, s |-> ""]

Close(n, name) == [k |-> "close", ns |-> n, name |-> name, s |-> ""]

Text(s) == [k |-> "text", ns |-> "", name |-> "", s |-> s]

\* The parser's state before the first token: no element seen, nothing open.
\*   elems: the elements in document order, each with its tag, depth and text
\*   stack: the tags of the open elements, innermost last
\*   cur:   the element whose start tag was the last tag seen (character data
\*          goes to its .text), 0 after an end tag (character data is a tail)
\*   err:   a ParseError was raised
ParserStart == [elems |-> <<>>, stack |-> <<>>, cur |-> 0, err |-> FALSE]

\* One token fed to the parser.
Feed(p, tok) ==
  IF p.err THEN p
  ELSE IF tok.k = "open" THEN
    IF p.stack = <<>> /\ p.elems # <<>>
    THEN [p EXCEPT !.err = TRUE]                \* junk after document element
    ELSE [p EXCEPT
            !.elems = Append(@, [ns |-> tok.ns, name |-> tok.name,
                                 depth |-> Len(p.stack), text |-> PyNone]),
            !.stack = Append(@, <<tok.ns, tok.name>>),
            !.cur = Len(p.elems) + 1]
  ELSE IF tok.k = "close" THEN
    IF p.stack = <<>> \/ p.stack[Len(p.stack)] # <<tok.ns, tok.name>>
    THEN [p EXCEPT !.err = TRUE]                \* mismatched tag
    ELSE [p EXCEPT !.stack = SubSeq(@, 1, Len(@) - 1), !.cur = 0]
  ELSE
    IF p.stack = <<>>
    THEN [p EXCEPT !.err = TRUE]                \* text outside the root
    ELSE IF p.cur = 0 THEN p                    \* tail text: not .text
    ELSE [p EXCEPT !.elems[p.cur].text =
            Str((IF IsStr(@) THEN @.v ELSE "") \o tok.s)]

RECURSIVE FeedAll(_, _)
FeedAll(p, toks) ==
  IF toks = <<>> THEN p ELSE FeedAll(Feed(p, Head(toks)), Tail(toks))

\* fromstring that takes the end of the text for the end of the document: an
\* element still open is not an error.
fromstring_unclosed_ok(xml) ==
  LET p == FeedAll(ParserStart, xml)
  IN IF p.err \/ p.elems = <<>>
     THEN [ok |-> FALSE, elems |-> <<>>]
     ELSE [ok |-> TRUE, elems |-> p.elems]

\* ET.fromstring: the elements in document order (the first is the root), or
\* a ParseError: an error while feeding, no element, or an unclosed element.
fromstring(xml) ==
  LET p == FeedAll(ParserStart, xml)
  IN IF p.err \/ p.elems = <<>> \/ p.stack # <<>>
     THEN [ok |-> FALSE, elems |-> <<>>]
     ELSE [ok |-> TRUE, elems |-> p.elems]

\* find with the path 'prefix:name': the children of the root only.
find_children_only(elems, prefix, name) ==
  LET hits == {i \in 2..Len(elems) :
                 /\ elems[i].depth = 1
                 /\ elems[i].ns = namespaces[prefix] /\ elems[i].name = name}
  IN IF hits = {} THEN 0
     ELSE CHOOSE i \in hits : \A j \in hits : i <= j

\* find with the path './/{*}name': the local name in any namespace.
find_any_namespace(elems, prefix, name) ==
  LET hits == {i \in 2..Len(elems) : elems[i].name = name}
  IN IF hits = {} THEN 0
     ELSE CHOOSE i \in hits : \A j \in hits : i <= j

\* root.find('.//prefix:name', namespaces): the index of the first element
\* below the root, in document order, with that qualified name; 0 for None.
find(elems, prefix, name) ==
  LET hits == {i \in 2..Len(elems) :
                 elems[i].ns = namespaces[prefix] /\ elems[i].name = name}
  IN IF hits = {} THEN 0
     ELSE CHOOSE i \in hits : \A j \in hits : i <= j

\* parse_login_response: what the call does: returns a pair or raises, and
\* what it printed before.
parse_login_response(response_xml) ==
  LET root == fromstring(response_xml)
      session_id_element == find(root.elems, "ns", "sessionId")
      server_url_element == find(root.elems, "ns", "serverUrl")
  IN IF ~root.ok
     THEN [kind |-> "return", value |-> <<PyNone, PyNone>>,
           out |-> <<"Error parsing XML response">>]
     ELSE IF session_id_element # 0 /\ server_url_element # 0
     THEN LET sid == root.elems[session_id_element].text
              url == root.elems[server_url_element].text
          IN IF ~IsStr(sid)
             \* session_id[:20] on None
             THEN [kind |-> "raise", exc |-> "TypeError", value |-> <<>>,
                   out |-> <<"Login successful!">>]
             ELSE [kind |-> "return", value |-> <<sid, url>>,
                   out |-> <<"Login successful!", "Session ID", "Server URL">>]
     ELSE [kind |-> "return", value |-> <<PyNone, PyNone>>,
           out |-> <<"Could not find sessionId or serverUrl in response">>]

\* ------------------------------------------------- XML documents (inputs)

UrlText == "https://x.my.salesforce.com/services/Soap/u/60.0/00D"

Kind(n, name, text) == [ns |-> n, name |-> name, text |-> text]

\* What the root of a generated document is: a SOAP Envelope, or (not a SOAP
\* message) a Partner sessionId element.
RootKinds ==
  {Kind(SoapNS, "Envelope", PyNone), Kind(PartnerNS, "sessionId", Str("ABC123"))}

\* What an element below the root is: a Fault, a Partner sessionId or
\* serverUrl with or without text, a sessionId of another namespace.
NodeKinds ==
  {Kind(SoapNS, "Fault", PyNone),
   Kind(PartnerNS, "sessionId", PyNone),
   Kind(PartnerNS, "sessionId", Str("ABC123")),
   Kind(PartnerNS, "sessionId", Str("XYZ789")),
   Kind(PartnerNS, "serverUrl", PyNone),
   Kind(PartnerNS, "serverUrl", Str(UrlText)),
   Kind(OtherNS, "sessionId", Str("ABC123"))}

\* The shapes of the trees of at most n elements: the depth of each element in
\* document order; an element is at most one deeper than the one before it.
Shapes(n) ==
  UNION {{d \in [1..m -> 0..(m - 1)] :
            d[1] = 0 /\ \A i \in 2..m : d[i] >= 1 /\ d[i] <= d[i - 1] + 1} :
         m \in 1..n}

Tree(r, ks, d) ==
  [i \in 1..Len(d) |-> [kind |-> IF i = 1 THEN r ELSE ks[i], depth |-> d[i]]]

\* The token sequence of a tree from its i-th element on, the elements of
\* `open` being open: start tag, text, children, end tag.
RECURSIVE Serialize(_, _, _)
Serialize(t, i, open) ==
  IF Len(open) > (IF i > Len(t) THEN 0 ELSE t[i].depth)
  THEN <<Close(open[Len(open)].ns, open[Len(open)].name)>>
       \o Serialize(t, i, SubSeq(open, 1, Len(open) - 1))
  ELSE IF i > Len(t) THEN <<>>
  ELSE <<Open(t[i].kind.ns, t[i].kind.name)>>
       \o (IF IsStr(t[i].kind.text) THEN <<Text(t[i].kind.text.v)>> ELSE <<>>)
       \o Serialize(t, i + 1, Append(open, t[i].kind))

\* A text with its i-th token lost.
Drop(xml, i) == SubSeq(xml, 1, i - 1) \o SubSeq(xml, i + 1, Len(xml))

\* How a text is damaged: not at all, or its first, last or last but one
\* token is lost (a stray end tag, an unclosed root, an unclosed inner
\* element or an element without its text).
Damages == {"none", "first", "last", "last_but_one"}

Damaged(xml, c) ==
  CASE c = "none" -> xml
    [] c = "first" -> Drop(xml, 1)
    [] c = "last" -> Drop(xml, Len(xml))
    [] c = "last_but_one" -> Drop(xml, Len(xml) - 1)

\* The XML text of the tree of shape d with root r and elements ks, damaged.
XmlText(d, r, ks, c) == Damaged(Serialize(Tree(r, ks, d), 1, <<>>), c)

\* ----------------------------------------------------------- strings

\* str.find: the index of the first occurrence of sep in s, 0 when none.
Find(s, sep) ==
  LET at == {i \in 1..(Len(s) - Len(sep) + 1) :
               SubSeq(s, i, i + Len(sep) - 1) = sep}
  IN IF at = {} THEN 0 ELSE CHOOSE i \in at : \A j \in at : i <= j

\* str.split(sep): the pieces of s between the occurrences of sep, left to
\* right.
RECURSIVE split(_, _)
split(s, sep) ==
  LET i == Find(s, sep)
  IN IF i = 0 THEN <<s>>
     ELSE <<SubSeq(s, 1, i - 1)>> \o split(SubSeq(s, i + Len(sep), Len(s)), sep)

\* ------------------------------------------------------------ program

HTTP_OK == 200

LoginTimeout == 30

SandboxLoginUrl == "https://mysandbox.my.salesforce.com/services/Soap/u/60.0"

ProductionLoginUrl == "https://login.salesforce.com/services/Soap/u/60.0"

\* The endpoint with the flag ignored.
login_url_sandbox_only(is_sandbox) == SandboxLoginUrl

login_url(is_sandbox) ==
  IF is_sandbox THEN SandboxLoginUrl ELSE ProductionLoginUrl

\* The envelope with the credentials interpolated as they are.
soap_body(username, password, security_token) ==
  "<soapenv:Envelope><soapenv:Header/><soapenv:Body><urn:login><urn:username>"
  \o username \o "</urn:username><urn:password>" \o password \o security_token
  \o "</urn:password></urn:login></soapenv:Body></soapenv:Envelope>"

LoginHeaders ==
  ("Content-Type" :> "text/xml; charset=UTF-8") @@ ("SOAPAction" :> "login")

\* The REST base URL cut at '/services', without the closing slash.
rest_base_url_short_sep(url) == split(url, "/services")[1] \o "/services/data/v60.0"

rest_base_url(url) == split(url, "/services/")[1] \o "/services/data/v60.0"

ProbeHeaders(sid) ==
  ("Authorization" :> ("Bearer " \o sid)) @@ ("Content-Type" :> "application/json")

Request(method, url, data, headers, timeout) ==
  [method |-> method, url |-> url, data |-> data, headers |-> headers,
   timeout |-> timeout]

NoRet == <<>>

Failed == <<PyNone, PyNone>>

\* Where a function returns to: main's next statement, or the end of the run.
ReturnTo(after) == IF entry = "main" THEN after ELSE "done"

InitCommon ==
  /\ net = <<>>
  /\ inflight = 0
  /\ replies = <<>>
  /\ ret = NoRet
  /\ escaped = "none"
  /\ parse_calls = 0
  /\ session_id = PyNone
  /\ server_url = PyNone
  /\ stdout = <<>>

\* --- parse_login_response called on its own

InitParse ==
  /\ entry = "parse"
  /\ pc = "parse_call"
  /\ \/ args = [response_xml |-> <<>>]
     \/ \E d \in Shapes(MaxNodes) :
          \E r \in RootKinds, ks \in [2..Len(d) -> NodeKinds], c \in Damages :
            args = [response_xml |-> XmlText(d, r, ks, c)]
  /\ InitCommon

ParseCall ==
  /\ pc = "parse_call"
  /\ LET r == parse_login_response(args.response_xml)
     IN /\ ret' = r.value
        /\ escaped' = IF r.kind = "raise" THEN r.exc ELSE "none"
        /\ stdout' = stdout \o r.out
  /\ parse_calls' = parse_calls + 1
  /\ pc' = "done"
  /\ UNCHANGED <<entry, args, net, inflight, replies, session_id, server_url>>

NextParse == ParseCall

SpecParse == InitParse /\ [][NextParse]_vars

\* --- get_salesforce_session_id

Usernames == {"USER", "a<b&c"}

Passwords == {"PASS", ""}

SecurityTokens == {"TOKEN", ""}

\* The statuses the login endpoint and the REST endpoint answer with.
Statuses == {200, 201, 401, 500}

\* How a caller passes is_sandbox: not at all, or a value.
SandboxArgs == {<<>>, <<TRUE>>, <<FALSE>>}

\* Line 5: the parameter is_sandbox with its default.
is_sandbox_param(passed) == IF passed = <<>> THEN FALSE ELSE passed[1]

LoginArgs(u, p, t, passed) ==
  [username |-> u, password |-> p, security_token |-> t,
   is_sandbox |-> is_sandbox_param(passed), passed |-> passed]

InitLogin ==
  /\ entry = "login"
  /\ pc = "login_call"
  /\ \E u \in Usernames, p \in Passwords, t \in SecurityTokens,
        b \in SandboxArgs : args = LoginArgs(u, p, t, b)
  /\ InitCommon

\* Lines 19-45: the endpoint, the envelope, the headers, and the POST goes out.
LoginSend ==
  /\ pc = "login_call"
  /\ net' = Append(net,
       Request("POST", login_url(args.is_sandbox),
               soap_body(args.username, args.password, args.security_token),
               LoginHeaders, <<LoginTimeout>>))
  /\ inflight' = inflight + 1
  /\ pc' = "post_wait"
  /\ UNCHANGED <<entry, args, replies, ret, escaped, parse_calls, session_id,
                 server_url, stdout>>

\* requests.post raises, and the call is tried again.
LoginPostRaises_retry ==
  /\ pc = "post_wait"
  /\ inflight' = inflight - 1
  /\ replies' = Append(replies, [kind |-> "exception", status |-> 0])
  /\ stdout' = Append(stdout, "Error during SOAP login")
  /\ pc' = "login_call"
  /\ UNCHANGED <<entry, args, net, ret, escaped, parse_calls, session_id,
                 server_url>>

\* Lines 45, 56-58: requests.post raises (no connection, timeout).
LoginPostRaises ==
  /\ pc = "post_wait"
  /\ inflight' = inflight - 1
  /\ replies' = Append(replies, [kind |-> "exception", status |-> 0])
  /\ stdout' = Append(stdout, "Error during SOAP login")
  /\ ret' = Failed
  /\ pc' = ReturnTo("main_after_login")
  /\ UNCHANGED <<entry, args, net, escaped, parse_calls, session_id, server_url>>

\* Every 2xx status taken for success.
LoginOnResponse_any_2xx(status, text) ==
  IF status >= 200 /\ status < 300
  THEN LET r == parse_login_response(text)
       IN [parsed |-> 1,
           value |-> IF r.kind = "raise" THEN Failed ELSE r.value,
           out |-> <<"Response Status", "Response Body">> \o r.out
                   \o (IF r.kind = "raise" THEN <<"Error during SOAP login">>
                       ELSE <<>>)]
  ELSE [parsed |-> 0, value |-> Failed,
        out |-> <<"Response Status", "Response Body", "Login failed with status">>]

\* What the function does with a response of this status and text.
LoginOnResponse(status, text) ==
  IF status = HTTP_OK
  THEN LET r == parse_login_response(text)
       IN [parsed |-> 1,
           value |-> IF r.kind = "raise" THEN Failed ELSE r.value,
           out |-> <<"Response Status", "Response Body">> \o r.out
                   \o (IF r.kind = "raise" THEN <<"Error during SOAP login">>
                       ELSE <<>>)]
  ELSE [parsed |-> 0, value |-> Failed,
        out |-> <<"Response Status", "Response Body", "Login failed with status">>]

LoginContinues(status, text) ==
  LET o == LoginOnResponse(status, text)
  IN /\ replies' = Append(replies, [kind |-> "response", status |-> status])
     /\ parse_calls' = parse_calls + o.parsed
     /\ stdout' = stdout \o o.out
     /\ ret' = o.value

\* The texts that come with a status other than 200: a fault, and (from a
\* server that is wrong about its status) a login result.
ErrorTexts ==
  {<<Open(SoapNS, "Envelope"), Open(SoapNS, "Fault"), Close(SoapNS, "Fault"),
     Close(SoapNS, "Envelope")>>,
   <<Open(SoapNS, "Envelope"),
     Open(PartnerNS, "sessionId"), Text("ABC123"), Close(PartnerNS, "sessionId"),
     Open(PartnerNS, "serverUrl"), Text(UrlText), Close(PartnerNS, "serverUrl"),
     Close(SoapNS, "Envelope")>>}

\* Lines 45-58: the response arrives; 200 goes to the parser, whose exception
\* the except clause of line 56 catches.
LoginPostReturns ==
  /\ pc = "post_wait"
  /\ \/ \E status \in Statuses \ {HTTP_OK}, text \in ErrorTexts :
          LoginContinues(status, text)
     \/ \E d \in Shapes(MaxRespNodes) :
          \E r \in RootKinds, ks \in [2..Len(d) -> NodeKinds], c \in Damages :
            LoginContinues(HTTP_OK, XmlText(d, r, ks, c))
  /\ inflight' = inflight - 1
  /\ pc' = ReturnTo("main_after_login")
  /\ UNCHANGED <<entry, args, net, escaped, session_id, server_url>>

\* --- test_rest_api_with_session

ProbeSessionIds == {PyNone, Str(""), Str("ABC123")}

UrlChunks ==
  {"https://acme.my.salesforce.com", "/services/", "Soap/u/60.0/00Dxx",
   "/services", "/", "s"}

\* The strings made of at most n chunks.
RECURSIVE Urls(_)
Urls(n) ==
  IF n = 0 THEN {""}
  ELSE Urls(n - 1) \cup {u \o c : u \in Urls(n - 1), c \in UrlChunks}

InitProbe ==
  /\ entry = "probe"
  /\ pc = "probe_call"
  /\ \E sid \in ProbeSessionIds :
       \E url \in {PyNone} \cup {Str(u) : u \in Urls(MaxChunks)} :
         args = [session_id |-> sid, server_url |-> url]
  /\ InitCommon

\* Lines 109-111: nothing to test with.
ProbeSkip ==
  /\ pc = "probe_call"
  /\ ~Truthy(args.session_id) \/ ~Truthy(args.server_url)
  /\ stdout' = Append(stdout, "No valid session to test with")
  /\ pc' = ReturnTo("main_after_probe")
  /\ UNCHANGED <<entry, args, net, inflight, replies, ret, escaped, parse_calls,
                 session_id, server_url>>

\* Lines 113-128: the REST base URL, the headers, and the GET goes out.
ProbeSend ==
  /\ pc = "probe_call"
  /\ Truthy(args.session_id) /\ Truthy(args.server_url)
  /\ net' = Append(net,
       Request("GET", rest_base_url(args.server_url.v) \o "/", "",
               ProbeHeaders(args.session_id.v), <<>>))
  /\ inflight' = inflight + 1
  /\ pc' = "get_wait"
  /\ UNCHANGED <<entry, args, replies, ret, escaped, parse_calls, session_id,
                 server_url, stdout>>

\* Lines 128, 138-139: requests.get raises.
ProbeGetRaises ==
  /\ pc = "get_wait"
  /\ inflight' = inflight - 1
  /\ replies' = Append(replies, [kind |-> "exception", status |-> 0])
  /\ stdout' = Append(stdout, "Error testing REST API")
  /\ pc' = ReturnTo("main_after_probe")
  /\ UNCHANGED <<entry, args, net, ret, escaped, parse_calls, session_id,
                 server_url>>

\* What a response body is to response.json() and len(): a JSON array, a JSON
\* value without a length, or no JSON at all.
RestBodies == {"json_array", "json_number", "not_json"}

\* The response arrives, with response.json() and len() outside the try.
ProbeGetReturns_json_unguarded ==
  /\ pc = "get_wait"
  /\ \E status \in Statuses, body \in RestBodies :
       /\ replies' = Append(replies, [kind |-> "response", status |-> status])
       /\ stdout' = stdout \o <<"REST API Test:", "Status">> \o
            (IF status # HTTP_OK THEN <<"REST API call failed">>
             ELSE IF body = "json_array"
             THEN <<"Successfully authenticated", "Available versions">>
             ELSE <<"Successfully authenticated">>)
       /\ escaped' = IF status = HTTP_OK /\ body # "json_array"
                     THEN (IF body = "not_json" THEN "JSONDecodeError" ELSE "TypeError")
                     ELSE escaped
  /\ inflight' = inflight - 1
  /\ pc' = ReturnTo("main_after_probe")
  /\ UNCHANGED <<entry, args, net, ret, parse_calls, session_id, server_url>>

\* Lines 128-139: the response arrives; response.json() and len() may raise,
\* and the except clause of line 138 catches it.
ProbeGetReturns ==
  /\ pc = "get_wait"
  /\ \E status \in Statuses, body \in RestBodies :
       /\ replies' = Append(replies, [kind |-> "response", status |-> status])
       /\ stdout' = stdout \o <<"REST API Test:", "Status">> \o
            (IF status # HTTP_OK THEN <<"REST API call failed">>
             ELSE IF body = "json_array"
             THEN <<"Successfully authenticated", "Available versions">>
             ELSE <<"Successfully authenticated", "Error testing REST API">>)
  /\ inflight' = inflight - 1
  /\ pc' = ReturnTo("main_after_probe")
  /\ UNCHANGED <<entry, args, net, ret, escaped, parse_calls, session_id,
                 server_url>>

\* --- the script

USERNAME == "USER"

PASSWORD == "PASS"

SECURITY_TOKEN == "TOKEN"

IS_SANDBOX == TRUE

InitMain ==
  /\ entry = "main"
  /\ pc = "main_start"
  /\ args = [argv |-> <<>>]
  /\ InitCommon

\* Lines 144-155: the call of get_salesforce_session_id.
MainStart ==
  /\ pc = "main_start"
  /\ stdout' = Append(stdout, "Attempting SOAP login to Salesforce...")
  /\ args' = LoginArgs(USERNAME, PASSWORD, SECURITY_TOKEN, <<IS_SANDBOX>>)
  /\ pc' = "login_call"
  /\ UNCHANGED <<entry, net, inflight, replies, ret, escaped, parse_calls,
                 session_id, server_url>>

\* Lines 150, 157-161, 166-167: the result is unpacked; a session id that is
\* true leads to the probe.
MainAfterLogin ==
  /\ pc = "main_after_login"
  /\ session_id' = ret[1]
  /\ server_url' = ret[2]
  /\ IF Truthy(ret[1])
     THEN /\ stdout' = Append(stdout, "SOAP Authentication successful!")
          /\ args' = [session_id |-> ret[1], server_url |-> ret[2]]
          /\ pc' = "probe_call"
     ELSE /\ stdout' = Append(stdout, "SOAP Authentication failed")
          /\ args' = args
          /\ pc' = "done"
  /\ UNCHANGED <<entry, net, inflight, replies, ret, escaped, parse_calls>>

\* Lines 163-165.
MainEnd ==
  /\ pc = "main_after_probe"
  /\ stdout' = stdout \o <<"You can now use this session ID for API calls:",
                           "Session ID", "Authorization header">>
  /\ pc' = "done"
  /\ UNCHANGED <<entry, args, net, inflight, replies, ret, escaped, parse_calls,
                 session_id, server_url>>

Init == InitMain \/ InitLogin \/ InitProbe

Next ==
  \/ MainStart
  \/ LoginSend
  \/ LoginPostRaises
  \/ LoginPostReturns
  \/ MainAfterLogin
  \/ ProbeSkip
  \/ ProbeSend
  \/ ProbeGetRaises
  \/ ProbeGetReturns
  \/ MainEnd

Spec == Init /\ [][Next]_vars

\* ------------------------------------------------------------ claims

\* The nesting depth after the i-th token of a text.
TokDepth(xml, i) ==
  Cardinality({j \in 1..i : xml[j].k = "open"})
  - Cardinality({j \in 1..i : xml[j].k = "close"})

\* Well-formed, said of the tokens: one root element that ends with the text,
\* and every end tag names the element it closes.
WellFormedXml(xml) ==
  /\ xml # <<>>
  /\ xml[1].k = "open"
  /\ \A i \in 1..(Len(xml) - 1) : TokDepth(xml, i) >= 1
  /\ TokDepth(xml, Len(xml)) = 0
  /\ \A j \in 1..Len(xml) :
       xml[j].k = "close" =>
         \E i \in 1..(j - 1) :
           /\ xml[i].k = "open"
           /\ xml[i].ns = xml[j].ns /\ xml[i].name = xml[j].name
           /\ TokDepth(xml, i) = TokDepth(xml, j) + 1
           /\ \A m \in i..(j - 1) : TokDepth(xml, m) >= TokDepth(xml, i)

IsSoapResponse(xml) == WellFormedXml(xml) /\ xml[1] = Open(SoapNS, "Envelope")

HasElement(xml, n, name) == \E i \in 1..Len(xml) : xml[i] = Open(n, name)

\* Some element of that name has the text s.
HasElementWithText(xml, n, name, s) ==
  \E i \in 1..(Len(xml) - 1) : xml[i] = Open(n, name) /\ xml[i + 1] = Text(s)

\* The first element of that name below the root has the text s.
FirstHasText(xml, n, name, s) ==
  \E i \in 2..(Len(xml) - 1) :
    /\ xml[i] = Open(n, name) /\ xml[i + 1] = Text(s)
    /\ \A j \in 2..(i - 1) : xml[j] # Open(n, name)

ClaimTexts == {"ABC123", "XYZ789", UrlText}

ParseReturned == entry = "parse" /\ pc = "done"

Partner == "urn:partner.soap.sforce.com"

NonePair == <<[t |-> "None"], [t |-> "None"]>>

\* Every Partner sessionId and serverUrl element of the text has a text.
NoneWithoutText(xml) ==
  \A i \in 1..(Len(xml) - 1) :
    xml[i] \in {Open(Partner, "sessionId"), Open(Partner, "serverUrl")}
    => xml[i + 1].k = "text"

\* C1 as stated: for a well-formed SOAP response that contains a Partner
\* sessionId element with text S and a Partner serverUrl element with text U,
\* anywhere in the document, parse_login_response returns exactly (S, U).
\* (Said of the responses none of whose sessionId and serverUrl elements is
\* empty, where the print of line 89 cannot fail.)
C1_AnyElementReturned ==
  (/\ ParseReturned
   /\ IsSoapResponse(args.response_xml)
   /\ NoneWithoutText(args.response_xml)) =>
    \A S \in ClaimTexts, U \in ClaimTexts :
      (/\ HasElementWithText(args.response_xml, Partner, "sessionId", S)
       /\ HasElementWithText(args.response_xml, Partner, "serverUrl", U))
      => (escaped = "none" /\ ret = <<Str(S), Str(U)>>)

\* C1 amended: for a well-formed SOAP response in which the first Partner
\* sessionId element in document order has text S and the first Partner
\* serverUrl element has text U, at any depth, parse_login_response returns
\* exactly (S, U), the texts as they are.
C1_FirstElementsReturned ==
  (ParseReturned /\ IsSoapResponse(args.response_xml)) =>
    \A S \in ClaimTexts, U \in ClaimTexts :
      (/\ FirstHasText(args.response_xml, Partner, "sessionId", S)
       /\ FirstHasText(args.response_xml, Partner, "serverUrl", U))
      => (escaped = "none" /\ ret = <<Str(S), Str(U)>>)

\* C1's case: a response with two sessionId elements, the first one and the
\* serverUrl two levels below the Envelope, and the pair returned.
C1_Witness ==
  /\ ParseReturned
  /\ IsSoapResponse(args.response_xml)
  /\ FirstHasText(args.response_xml, Partner, "sessionId", "XYZ789")
  /\ FirstHasText(args.response_xml, Partner, "serverUrl", UrlText)
  /\ \E i \in 1..Len(args.response_xml) :
       /\ args.response_xml[i] = Open(Partner, "serverUrl")
       /\ TokDepth(args.response_xml, i) = 3
  /\ ret = <<Str("XYZ789"), Str(UrlText)>>

\* C2: for a well-formed XML document that lacks a Partner sessionId element,
\* a Partner serverUrl element, or both, parse_login_response returns
\* (None, None).
C2_MissingElementFails ==
  (/\ ParseReturned
   /\ WellFormedXml(args.response_xml)
   /\ \/ ~HasElement(args.response_xml, Partner, "sessionId")
      \/ ~HasElement(args.response_xml, Partner, "serverUrl"))
  => (escaped = "none" /\ ret = NonePair)

\* C2's case: a sessionId of another namespace beside a Partner serverUrl.
C2_Witness ==
  /\ ParseReturned
  /\ WellFormedXml(args.response_xml)
  /\ HasElementWithText(args.response_xml, OtherNS, "sessionId", "ABC123")
  /\ HasElementWithText(args.response_xml, Partner, "serverUrl", UrlText)
  /\ ~HasElement(args.response_xml, Partner, "sessionId")
  /\ ret = NonePair

\* C3: for a syntactically invalid XML text, parse_login_response returns
\* (None, None) and no exception escapes.
C3_MalformedFails ==
  (ParseReturned /\ ~WellFormedXml(args.response_xml))
  => (escaped = "none" /\ ret = NonePair)

\* C3's case: an unclosed Envelope that holds both elements with their texts.
C3_Witness ==
  /\ ParseReturned
  /\ ~WellFormedXml(args.response_xml)
  /\ args.response_xml # <<>>
  /\ args.response_xml[1] = Open(SoapNS, "Envelope")
  /\ args.response_xml[Len(args.response_xml)].k = "close"
  /\ HasElementWithText(args.response_xml, Partner, "sessionId", "ABC123")
  /\ HasElementWithText(args.response_xml, Partner, "serverUrl", UrlText)
  /\ ret = NonePair

LoginReturned == entry \in {"login", "main"} /\ ret # NoRet

Posts == {i \in 1..Len(net) : net[i].method = "POST"}

Gets == {i \in 1..Len(net) : net[i].method = "GET"}

\* C4: on a transport failure of the login call (an exception of the
\* transport, or a status other than 200) get_salesforce_session_id returns
\* (None, None), raises nothing, never calls the parser, and has issued
\* exactly one POST.
C4_TransportFailure ==
  (LoginReturned /\ (replies[1].kind = "exception" \/ replies[1].status # 200))
  => /\ ret = NonePair
     /\ escaped = "none"
     /\ parse_calls = 0
     /\ Cardinality(Posts) = 1

\* C4's case: a 201 answer to the login POST.
C4_Witness ==
  /\ entry = "login" /\ pc = "done"
  /\ replies = <<[kind |-> "response", status |-> 201]>>
  /\ ret = NonePair
  /\ Len(net) = 1

\* C5: the POST goes to the sandbox endpoint when is_sandbox is passed as
\* True and to the production endpoint otherwise (False, or left out),
\* whatever the username, password and security token.
C5_EndpointBySandboxFlag ==
  pc = "post_wait" =>
    /\ Len(net) = 1
    /\ net[1].method = "POST"
    /\ net[1].url =
         IF args.passed = <<TRUE>>
         THEN "https://mysandbox.my.salesforce.com/services/Soap/u/60.0"
         ELSE "https://login.salesforce.com/services/Soap/u/60.0"

\* C5's case: is_sandbox left out, a username with XML-special characters.
C5_Witness ==
  /\ pc = "post_wait"
  /\ args.passed = <<>>
  /\ args.username = "a<b&c"
  /\ net[1].url = "https://login.salesforce.com/services/Soap/u/60.0"

ProbeCalled == "server_url" \in DOMAIN args

\* '/services/' occurs in url at index j.
ServicesAt(url, j) ==
  j + 9 <= Len(url) /\ SubSeq(url, j, j + 9) = "/services/"

\* The first k characters of url are what comes before '/services/': before
\* its first occurrence, or all of url when it does not occur.
IsBeforeServices(url, k) ==
  /\ \A j \in 1..k : ~ServicesAt(url, j)
  /\ ServicesAt(url, k + 1)
     \/ (k = Len(url) /\ \A j \in 1..Len(url) : ~ServicesAt(url, j))

\* C6: the GET of test_rest_api_with_session goes to what comes before
\* '/services/' in serverUrl, then '/services/data/v60.0', then '/'; the
\* serverUrl https://acme.my.salesforce.com/services/Soap/u/60.0/00Dxx gives
\* the base https://acme.my.salesforce.com/services/data/v60.0.
C6_RestBaseUrl ==
  Gets # {} =>
    /\ Cardinality(Gets) = 1
    /\ \A g \in Gets :
         /\ \E k \in 0..Len(args.server_url.v) :
              /\ IsBeforeServices(args.server_url.v, k)
              /\ net[g].url = SubSeq(args.server_url.v, 1, k)
                     \o "/services/data/v60.0" \o "/"
         /\ args.server_url.v =
              "https://acme.my.salesforce.com/services/Soap/u/60.0/00Dxx"
            => net[g].url = "https://acme.my.salesforce.com/services/data/v60.0/"

\* C6's case: the GET for the serverUrl of the example.
C6_Witness ==
  /\ entry = "probe"
  /\ args.server_url.t = "str"
  /\ args.server_url.v = "https://acme.my.salesforce.com/services/Soap/u/60.0/00Dxx"
  /\ Len(net) = 1
  /\ net[1].method = "GET"
  /\ net[1].url = "https://acme.my.salesforce.com/services/data/v60.0/"

\* None or the empty string.
IsEmptyInput(x) == x = [t |-> "None"] \/ x = [t |-> "str", v |-> ""]

\* C7: with session_id or server_url None or empty,
\* test_rest_api_with_session issues no GET and returns normally.
C7_EmptyInputNoRequest ==
  (ProbeCalled /\ (IsEmptyInput(args.session_id) \/ IsEmptyInput(args.server_url)))
  => /\ Gets = {}
     /\ inflight = 0
     /\ escaped = "none"
     /\ pc \in {"probe_call", "main_after_probe", "done"}
     /\ pc = "probe_call" => ENABLED ProbeSkip

\* C7's case: a session id with an empty server URL, and the call returned.
C7_Witness ==
  /\ entry = "probe" /\ pc = "done"
  /\ args.session_id = Str("ABC123")
  /\ args.server_url = Str("")
  /\ net = <<>>
  /\ stdout = <<"No valid session to test with">>

\* C8: with both inputs non-empty, test_rest_api_with_session issues exactly
\* one GET and, whatever the GET's outcome (an exception, any status, a body
\* that is not JSON), returns normally with no exception escaping.
C8_ProbeNeverFatal ==
  (ProbeCalled /\ ~IsEmptyInput(args.session_id) /\ ~IsEmptyInput(args.server_url))
  => /\ escaped = "none"
     /\ pc # "probe_call" => Cardinality(Gets) = 1
     /\ pc = "probe_call" => ~ENABLED ProbeSkip
     /\ pc = "get_wait" => (inflight = 1 /\ ENABLED ProbeGetRaises
                            /\ ENABLED ProbeGetReturns)
     /\ pc \in {"main_after_probe", "done"} => inflight = 0

\* C8's case: status 200 with a body that is not a JSON array, caught.
C8_Witness ==
  /\ entry = "probe" /\ pc = "done"
  /\ replies = <<[kind |-> "response", status |-> 200]>>
  /\ stdout[Len(stdout)] = "Error testing REST API"
  /\ Len(net) = 1
  /\ escaped = "none"

\* C9: the login result is all or nothing: (None, None), or a pair of two
\* strings, never a pair with one component absent.
C9_AllOrNothing ==
  ret # NoRet => (ret = NonePair \/ (ret[1].t = "str" /\ ret[2].t = "str"))

\* C10: in a run of the script at most one request is outstanding; the POST
\* comes first and only once; the GET comes at most once and only after the
\* POST was answered with status 200 and the result holds a non-empty
\* sessionId and serverUrl; after a failed login no GET is issued; the run
\* ends normally.
C10_MainFlowOrdered ==
  entry = "main" =>
    /\ inflight \in {0, 1}
    /\ inflight = Len(net) - Len(replies)
    /\ Len(net) <= 2
    /\ Len(net) >= 1 => net[1].method = "POST"
    /\ Len(net) = 2 =>
         /\ net[2].method = "GET"
         /\ replies[1] = [kind |-> "response", status |-> 200]
         /\ ~IsEmptyInput(ret[1]) /\ ~IsEmptyInput(ret[2])
    /\ ret = NonePair => Len(net) = 1
    /\ escaped = "none"
    /\ pc = "done" => (inflight = 0 /\ ret # NoRet)
    /\ pc = "done" \/ ENABLED Next

\* C10's case: a run that ends after the POST and the GET were both answered.
C10_Witness ==
  /\ entry = "main" /\ pc = "done"
  /\ Len(net) = 2 /\ Len(replies) = 2
  /\ net[1].method = "POST" /\ net[2].method = "GET"

====
